---- MODULE Spec2Model ----
(***************************************************************************)
(* A model of github_stats: the two collectors (fetch_stats of             *)
(* src/src/fetcher.py, GraphQL, and fetch_stats of src/stats.py, REST with *)
(* the SkippedReposManager) and the report generator of                    *)
(* src/src/reporter.py.                                                    *)
(*                                                                         *)
(* Environment assumptions: the remote source answers every request with   *)
(* one of the outcomes enumerated below; responses that carry data conform *)
(* to the shape the query asks for; the skip-list file is readable and     *)
(* writable (the try/except around the file I/O of SkippedReposManager is  *)
(* not exercised); the REST fetcher is constructed with a manager, as main *)
(* of src/stats.py does.                                                   *)
(***************************************************************************)
EXTENDS Integers, Sequences, FiniteSets, TLC

\* ---------------------------------------------------------------- bounds
MaxRepos == 2
MaxPages == 2
MaxItems == 1
MaxRuns == 2

\* ------------------------------------------------------------- constants
NULL == "null"
NaN == -1
NoDate == -1
DayUnits == 2400
NullStamp == [d |-> NaN, h |-> NaN]
NullNode == [present |-> FALSE]

Range(s) == {s[k] : k \in DOMAIN s}

RepoNames == <<"o/r1", "o/r2", "o/r3", "o/r4">>
Repos == Range(RepoNames)
\* the opaque cursor the source returns with the n-th page of data of a call
CursorNames == <<"c1", "c2", "c3", "c4", "c5">>

RECURSIVE ConcatAll(_)
ConcatAll(ss) == IF ss = <<>> THEN <<>> ELSE Head(ss) \o ConcatAll(Tail(ss))

RepoLists == {SubSeq(RepoNames, 1, n) : n \in 1..MaxRepos}

\* --------------------------------------------------------- time and text
\* A datetime is a number of hundredths of an hour since the epoch.  A wire
\* timestamp "%Y-%m-%dT%H:%M:%SZ" is the pair of its day and its time of day.
strptime(w) == w.d * DayUnits + w.h

\* strftime('%Y-%m-%d'): the day of a datetime, its time of day dropped.
strftime(t) == t \div DayUnits

lower(l) ==
    CASE l = "Release" -> "release"
      [] l = "RELEASE" -> "release"
      [] l = "Bug" -> "bug"
      [] l = "BUG" -> "bug"
      [] l = "WIP" -> "wip"
      [] OTHER -> l

\* (merged_at - created_at).total_seconds() / 3600, in hundredths of an hour
total_hours(merged_at, created_at) == merged_at - created_at

\* ---------------------------------------------------------- EventRecord
\* pandas fills the keys a record does not carry with NaN.
Event(type, user, repo, created_at, additions, deletions, merge_time_hours) ==
    [type |-> type, user |-> user, repo |-> repo, created_at |-> created_at,
     count |-> 1, additions |-> additions, deletions |-> deletions,
     merge_time_hours |-> merge_time_hours]

\* ------------------------------------------- fetcher.py: one GraphQL node
\* a variant that compares the labels of the item as they are written
should_skip_lines_CaseSensitive(node, skip_labels) ==
    \E k \in DOMAIN skip_labels : skip_labels[k] \in Range(node.labels)

should_skip_lines(node, skip_labels) ==
    LET labels == {lower(l) : l \in Range(node.labels)}
    IN  \E k \in DOMAIN skip_labels : skip_labels[k] \in labels

\* a variant that counts every state it does not know as a comment
ReviewEvents_ElseCommented(review, repo_name, created_at) ==
    IF review.author = NULL THEN <<>>
    ELSE IF review.state = "APPROVED"
         THEN <<Event("review_approved", review.author, repo_name, created_at, NaN, NaN, NaN)>>
    ELSE IF review.state = "CHANGES_REQUESTED"
         THEN <<Event("review_changes_requested", review.author, repo_name, created_at, NaN, NaN, NaN)>>
    ELSE <<Event("review_commented", review.author, repo_name, created_at, NaN, NaN, NaN)>>

ReviewEvents(review, repo_name, created_at) ==
    IF review.author = NULL THEN <<>>
    ELSE IF review.state = "APPROVED"
         THEN <<Event("review_approved", review.author, repo_name, created_at, NaN, NaN, NaN)>>
    ELSE IF review.state = "CHANGES_REQUESTED"
         THEN <<Event("review_changes_requested", review.author, repo_name, created_at, NaN, NaN, NaN)>>
    ELSE IF review.state = "COMMENTED"
         THEN <<Event("review_commented", review.author, repo_name, created_at, NaN, NaN, NaN)>>
    ELSE <<>>

\* a variant that stamps the record with the creation of the item, as the reviews are
MergeEvents_CreatedStamp(node, author_login, repo_name, created_at) ==
    IF node.mergedAt = NullStamp THEN <<>>
    ELSE <<Event("pr_merged", author_login, repo_name, created_at, NaN, NaN,
                 total_hours(strptime(node.mergedAt), created_at))>>

MergeEvents(node, author_login, repo_name, created_at) ==
    IF node.mergedAt = NullStamp THEN <<>>
    ELSE LET merged_at == strptime(node.mergedAt)
         IN  <<Event("pr_merged", author_login, repo_name, merged_at, NaN, NaN,
                     total_hours(merged_at, created_at))>>

\* a variant that records a comment whoever its author is
CommentEvents_AnyAuthor(comment, repo_name) ==
    <<Event("comment", IF comment.author = NULL THEN "unknown" ELSE comment.author,
            repo_name, strptime(comment.createdAt), NaN, NaN, NaN)>>

CommentEvents(comment, repo_name) ==
    IF comment.author = NULL THEN <<>>
    ELSE <<Event("comment", comment.author, repo_name, strptime(comment.createdAt), NaN, NaN, NaN)>>

\* a variant that records the merge before the reviews
NormalizeNode_MergeFirst(node, repo_name, skip_labels) ==
    IF ~node.present THEN <<>>
    ELSE
    LET author_login == IF node.author = NULL THEN "unknown" ELSE node.author
        created_at == strptime(node.createdAt)
        skip == should_skip_lines(node, skip_labels)
        additions == IF skip THEN 0 ELSE node.additions
        deletions == IF skip THEN 0 ELSE node.deletions
    IN  <<Event("pr_created", author_login, repo_name, created_at, additions, deletions, NaN)>>
        \o MergeEvents(node, author_login, repo_name, created_at)
        \o ConcatAll([k \in DOMAIN node.reviews |->
                        ReviewEvents(node.reviews[k], repo_name, created_at)])
        \o ConcatAll([k \in DOMAIN node.comments |->
                        CommentEvents(node.comments[k], repo_name)])
        \o ConcatAll([t \in DOMAIN node.reviewThreads |->
                        ConcatAll([k \in DOMAIN node.reviewThreads[t] |->
                                     CommentEvents(node.reviewThreads[t][k], repo_name)])])

NormalizeNode(node, repo_name, skip_labels) ==
    IF ~node.present THEN <<>>
    ELSE
    LET author_login == IF node.author = NULL THEN "unknown" ELSE node.author
        created_at == strptime(node.createdAt)
        skip == should_skip_lines(node, skip_labels)
        additions == IF skip THEN 0 ELSE node.additions
        deletions == IF skip THEN 0 ELSE node.deletions
    IN  <<Event("pr_created", author_login, repo_name, created_at, additions, deletions, NaN)>>
        \o ConcatAll([k \in DOMAIN node.reviews |->
                        ReviewEvents(node.reviews[k], repo_name, created_at)])
        \o MergeEvents(node, author_login, repo_name, created_at)
        \o ConcatAll([k \in DOMAIN node.comments |->
                        CommentEvents(node.comments[k], repo_name)])
        \o ConcatAll([t \in DOMAIN node.reviewThreads |->
                        ConcatAll([k \in DOMAIN node.reviewThreads[t] |->
                                     CommentEvents(node.reviewThreads[t][k], repo_name)])])

NormalizePage(nodes, repo_name, skip_labels) ==
    ConcatAll([k \in DOMAIN nodes |-> NormalizeNode(nodes[k], repo_name, skip_labels)])

\* ------------------------------------------------ samples of remote data
Stamp(d, h) == [d |-> d, h |-> h]

Node1 ==
    [present |-> TRUE, author |-> "alice", createdAt |-> Stamp(1, 0),
     mergedAt |-> Stamp(1, 150), labels |-> <<"Bug">>, additions |-> 10, deletions |-> 5,
     reviews |-> <<[author |-> "bob", state |-> "APPROVED"]>>,
     comments |-> <<[author |-> "bob", createdAt |-> Stamp(1, 20)]>>,
     reviewThreads |-> << <<[author |-> NULL, createdAt |-> Stamp(1, 30)],
                            [author |-> "alice", createdAt |-> Stamp(1, 40)]>> >>]

Node2 ==
    [present |-> TRUE, author |-> NULL, createdAt |-> Stamp(2, 100),
     mergedAt |-> NullStamp, labels |-> <<"Release">>, additions |-> 2, deletions |-> 1,
     reviews |-> <<[author |-> NULL, state |-> "COMMENTED"],
                   [author |-> "bob", state |-> "DISMISSED"],
                   [author |-> "bob", state |-> "CHANGES_REQUESTED"]>>,
     comments |-> <<>>, reviewThreads |-> <<>>]

PageSamples == {<<NullNode, Node1, Node2>>}

\* error messages of a GraphQL error payload (result['errors'][0]['message'])
MsgRateLimit == "API rate limit exceeded for user ID 1."
MsgForbidden == "Resource not accessible by personal access token"
MsgNotFound == "Could not resolve to a Repository with the name 'o/r'."
MsgOther == "Something went wrong while executing your query."
ErrorMsgs == {MsgRateLimit, MsgForbidden, MsgNotFound, MsgOther}

\* how the remote source meant an error message
Cause(msg) ==
    CASE msg = MsgRateLimit -> "rate"
      [] msg = MsgForbidden -> "forbidden"
      [] msg = MsgNotFound -> "notfound"
      [] OTHER -> "other"

GraphqlResponses ==
    [kind : {"http_error"}]
    \cup [kind : {"errors"}, error_msg : ErrorMsgs]
    \cup [kind : {"data"}, nodes : PageSamples, hasNextPage : BOOLEAN]

\* "API rate limit exceeded" in error_msg
HasRateLimitSignature(error_msg) == error_msg \in {MsgRateLimit}

\* ------------------------------------------------------------------ state
VARIABLES
    pc,             \* where the running fetch_stats call is
    impl,           \* which fetch_stats runs: "graphql" (fetcher.py), "rest" (stats.py)
    repos,          \* argument repos
    start_date,     \* argument start_date (NoDate for None)
    end_date,       \* argument end_date (NoDate for None)
    skip_labels,    \* argument skip_labels, after the default
    idx,            \* position of the for loop in repos
    has_next_page,  \* fetcher.py: loop variable
    after_cursor,   \* fetcher.py: loop variable
    fetched,        \* history: requests of this call answered with data
    data,           \* the local list data
    result,         \* the stream handed to the caller
    error,          \* the exception that left fetch_stats, NULL if none
    skipped_repos,  \* SkippedReposManager.skipped_repos
    persisted,      \* content of skipped_repos.yaml
    log,            \* history: the requests of this call and how each was answered
    transient,      \* history: a call failed on RepoNames[1] with an unclassified error
    runs,           \* number of fetch_stats calls so far
    df,             \* StatsReporter.df
    users_filter,   \* StatsReporter.users_filter ({} for None or an empty list)
    skip_users,     \* StatsReporter.skip_users ({} for None or an empty list)
    metrics,        \* StatsReporter.metrics (<<>> for None or an empty list)
    sort_by,        \* StatsReporter.sort_by (NULL for None)
    output_file,    \* StatsReporter.output_file (NULL for None)
    print_to_terminal, \* StatsReporter.print_to_terminal
    rpc,            \* where the generate_report call is
    repositories,   \* generate_report: the unique repositories of df
    ridx,           \* generate_report: position of the loop in repositories
    output_buffer,  \* generate_report: the local list output_buffer
    terminal,       \* what print_out has printed
    saved,          \* content of the output file, <<>> while not written
    rerror,         \* the exception that left generate_report, NULL if none
    given,          \* history: the stream the StatsReporter was constructed with
    calls,          \* number of generate_report calls on the StatsReporter so far
    previous,       \* history: what the previous generate_report call showed
    sorted_memo,    \* history: what sort_values returned for the frame of a repository
    config,         \* ConfigLoader.config, as far as the skip labels go
    node,           \* one item of a page, as the source sends it
    out,            \* the records the normalisation of node left in data
    npc,            \* where the normalisation of node is
    answer          \* what is_skipped returned last, and for which repository

fetchVars == <<pc, impl, repos, start_date, end_date, skip_labels, idx, has_next_page,
               after_cursor, fetched, data, result, error, skipped_repos, persisted,
               log, transient, runs>>
reportVars == <<df, users_filter, skip_users, metrics, sort_by, output_file,
                print_to_terminal, rpc, repositories, ridx, output_buffer, terminal,
                saved, rerror, given, calls, previous, sorted_memo>>
normVars == <<config, node, out, npc>>
mgrVars == <<answer>>
vars == <<fetchVars, reportVars, normVars, mgrVars>>

SkipLists == {<<>>, <<"o/r2">>}
Dates == {NoDate, 1 * DayUnits + 900}

\* the pageInfo of an answer that carries none
NoPage == [hasNextPage |-> FALSE, endCursor |-> NULL]

\* one request: whom it was for (name and position in repos), what it asked, how it
\* was answered (the answer's kind, or the cause the source gives for an error, and
\* its pageInfo) and the records it left in data
LogEntry(repo_name, pos, query, after, kind, page, got) ==
    [repo |-> repo_name, pos |-> pos, query |-> query, after |-> after, kind |-> kind,
     page |-> page, got |-> got]

UnclassifiedKinds == {"other", "http_error", "Exception"}

Last(s) == s[Len(s)]

\* a variant that keeps the cursor it sent
AdvanceCursor_Keep(sent, endCursor) == sent

\* after_cursor = page_info['endCursor']
AdvanceCursor(sent, endCursor) == endCursor

\* a variant that puts the new records in front of the list
Extend_Prepend(list, records) == records \o list

\* a variant that rebinds the list instead of appending to it
Extend_Rebinding(list, records) == records

\* data.append(...)
Extend(list, records) == list \o records

\* --------------------------------------------- stats.py: SkippedReposManager
\* _load: the list stored in the file
Load(file) == file

\* a variant of add without the membership test
Add_NoCheck(list, file, repo_name) ==
    <<Append(list, repo_name), Append(list, repo_name)>>

\* add: append unless present; the pair of the new list and the new file (save)
Add(list, file, repo_name) ==
    IF repo_name \in Range(list) THEN <<list, file>>
    ELSE <<Append(list, repo_name), Append(list, repo_name)>>

is_skipped(list, repo_name) == repo_name \in Range(list)

\* ------------------------------------------------- fetcher.py: fetch_stats
SearchQueryGraphql(repo_name) ==
    [repo |-> repo_name, op |-> "..", from |-> strftime(start_date), to |-> strftime(end_date)]

StartGraphql(rs, sd, ed) ==
    /\ pc \in {"idle", "returned", "raised"}
    /\ runs < MaxRuns
    /\ runs' = runs + 1
    /\ impl' = "graphql"
    /\ repos' = rs
    /\ start_date' = sd
    /\ end_date' = ed
    /\ skip_labels' = <<"release">>
    /\ idx' = 1
    /\ data' = <<>>
    /\ result' = <<>>
    /\ error' = NULL
    /\ log' = <<>>
    /\ has_next_page' = FALSE
    /\ after_cursor' = NULL
    /\ fetched' = 0
    /\ pc' = "for"
    /\ UNCHANGED <<skipped_repos, persisted, transient, reportVars, normVars, mgrVars>>

\* the head of the for loop: return, or build the search query and enter the while loop
GraphqlRepo ==
    /\ pc = "for"
    /\ impl = "graphql"
    /\ \/ /\ idx > Len(repos)
          /\ pc' = "returned"
          /\ result' = data
          /\ UNCHANGED <<error, data, has_next_page, after_cursor, fetched>>
       \/ /\ idx <= Len(repos)
          /\ (start_date = NoDate \/ end_date = NoDate)
          /\ pc' = "raised"
          /\ error' = "AttributeError"
          /\ data' = <<>>
          /\ UNCHANGED <<result, has_next_page, after_cursor, fetched>>
       \/ /\ idx <= Len(repos)
          /\ start_date # NoDate
          /\ end_date # NoDate
          /\ pc' = "while"
          /\ has_next_page' = TRUE
          /\ after_cursor' = NULL
          /\ UNCHANGED <<result, error, data, fetched>>
    /\ UNCHANGED <<impl, repos, start_date, end_date, skip_labels, idx, skipped_repos,
                   persisted, log, transient, runs, reportVars, normVars, mgrVars>>

\* a variant that never leaves the while loop on a page
HasNextPage_Always(page_info) == TRUE

\* has_next_page = page_info['hasNextPage']
HasNextPage(page_info) == page_info.hasNextPage

\* a variant that treats the rate limit like every other error payload
OnGraphqlErrors_AlwaysBreak(error_msg) == "break"

\* what an error payload does to the run: "raise" or "break"
OnGraphqlErrors(error_msg) ==
    IF HasRateLimitSignature(error_msg) THEN "raise" ELSE "break"

\* one turn of the while loop: the request, and the handling of its answer
GraphqlPage(resp) ==
    /\ pc = "while"
    /\ impl = "graphql"
    /\ has_next_page
    /\ resp.kind = "data" => fetched < MaxPages
    /\ LET repo_name == repos[idx]
           kind == IF resp.kind = "errors" THEN Cause(resp.error_msg) ELSE resp.kind
           got == IF resp.kind = "data"
                  THEN NormalizePage(resp.nodes, repo_name, skip_labels) ELSE <<>>
           page == IF resp.kind = "data"
                   THEN [hasNextPage |-> resp.hasNextPage,
                         endCursor |-> CursorNames[fetched + 1]]
                   ELSE NoPage
       IN  /\ log' = Append(log, LogEntry(repo_name, idx, SearchQueryGraphql(repo_name),
                                           after_cursor, kind, page, got))
           /\ transient' = (transient \/ (kind \in UnclassifiedKinds /\ repo_name = RepoNames[1]))
           /\ \/ /\ resp.kind = "http_error"
                 /\ pc' = "for"
                 /\ idx' = idx + 1
                 /\ UNCHANGED <<data, error, has_next_page, after_cursor, fetched>>
              \/ /\ resp.kind = "errors"
                 /\ OnGraphqlErrors(resp.error_msg) = "raise"
                 /\ pc' = "raised"
                 /\ error' = "RateLimitExceededError"
                 /\ data' = <<>>
                 /\ UNCHANGED <<idx, has_next_page, after_cursor, fetched>>
              \/ /\ resp.kind = "errors"
                 /\ OnGraphqlErrors(resp.error_msg) = "break"
                 /\ pc' = "for"
                 /\ idx' = idx + 1
                 /\ UNCHANGED <<data, error, has_next_page, after_cursor, fetched>>
              \/ /\ resp.kind = "data"
                 /\ has_next_page' = HasNextPage(page)
                 /\ after_cursor' = AdvanceCursor(after_cursor, page.endCursor)
                 /\ data' = Extend(data, got)
                 /\ fetched' = fetched + 1
                 /\ IF has_next_page'
                    THEN pc' = "while" /\ idx' = idx
                    ELSE pc' = "for" /\ idx' = idx + 1
                 /\ UNCHANGED error
    /\ UNCHANGED <<impl, repos, start_date, end_date, skip_labels, result, skipped_repos,
                   persisted, runs, reportVars, normVars, mgrVars>>

\* --------------------------------------------------- stats.py: fetch_stats
Issue1 ==
    [pull_request |-> TRUE, user |-> "alice", created_at |-> 1 * DayUnits,
     labels |-> <<"release">>, additions |-> 7, deletions |-> 3,
     reviews |-> <<[state |-> "APPROVED", user |-> "bob", submitted_at |-> 1 * DayUnits + 50],
                   [state |-> "COMMENTED", user |-> "bob", submitted_at |-> 1 * DayUnits + 60]>>,
     comments |-> <<[user |-> "bob", created_at |-> 1 * DayUnits + 10]>>,
     review_comments |-> <<>>]

Issue2 ==
    [pull_request |-> FALSE, user |-> "carol", created_at |-> 2 * DayUnits,
     labels |-> <<>>, additions |-> 0, deletions |-> 0,
     reviews |-> <<>>, comments |-> <<>>, review_comments |-> <<>>]

IssueSamples == {Issue1, Issue2}

NormalizeIssue(issue, repo_name, labels_to_skip) ==
    IF ~issue.pull_request THEN <<>>
    ELSE
    LET labels == {lower(l) : l \in Range(issue.labels)}
        skip == \E k \in DOMAIN labels_to_skip : labels_to_skip[k] \in labels
        additions == IF skip THEN 0 ELSE issue.additions
        deletions == IF skip THEN 0 ELSE issue.deletions
    IN  <<Event("pr_created", issue.user, repo_name, issue.created_at, additions, deletions, NaN)>>
        \o ConcatAll([k \in DOMAIN issue.reviews |->
              IF issue.reviews[k].state = "APPROVED"
              THEN <<Event("pr_approved", issue.reviews[k].user, repo_name,
                           issue.reviews[k].submitted_at, NaN, NaN, NaN)>>
              ELSE <<>>])
        \o [k \in DOMAIN issue.comments |->
              Event("comment", issue.comments[k].user, repo_name,
                    issue.comments[k].created_at, NaN, NaN, NaN)]
        \o [k \in DOMAIN issue.review_comments |->
              Event("comment", issue.review_comments[k].user, repo_name,
                    issue.review_comments[k].created_at, NaN, NaN, NaN)]

\* an exception can leave the records of the item in progress behind
PartialSamples == {0, 1}

Prefix(s, n) == SubSeq(s, 1, IF n < Len(s) THEN n ELSE Len(s))

RestResponses ==
    [kind : {"issue"}, issue : IssueSamples]
    \cup [kind : {"end"}]
    \cup {[kind |-> "GithubException", status |-> 403, cause |-> "forbidden"],
          [kind |-> "GithubException", status |-> 403, cause |-> "rate"],
          [kind |-> "GithubException", status |-> 404, cause |-> "notfound"],
          [kind |-> "GithubException", status |-> 500, cause |-> "other"]}
    \cup [kind : {"Exception"}]

SearchQueryRest(repo_name) ==
    IF start_date # NoDate /\ end_date # NoDate
    THEN [repo |-> repo_name, op |-> "..", from |-> strftime(start_date), to |-> strftime(end_date)]
    ELSE IF start_date # NoDate
    THEN [repo |-> repo_name, op |-> ">=", from |-> strftime(start_date), to |-> NoDate]
    ELSE IF end_date # NoDate
    THEN [repo |-> repo_name, op |-> "<=", from |-> NoDate, to |-> strftime(end_date)]
    ELSE [repo |-> repo_name, op |-> "", from |-> NoDate, to |-> NoDate]

StartRest(rs, sd, ed) ==
    /\ pc \in {"idle", "returned", "raised"}
    /\ runs < MaxRuns
    /\ runs' = runs + 1
    /\ impl' = "rest"
    /\ repos' = rs
    /\ start_date' = sd
    /\ end_date' = ed
    /\ skip_labels' = <<"release">>
    /\ idx' = 1
    /\ data' = <<>>
    /\ result' = <<>>
    /\ error' = NULL
    /\ log' = <<>>
    /\ has_next_page' = FALSE
    /\ after_cursor' = NULL
    /\ fetched' = 0
    /\ pc' = "for"
    /\ UNCHANGED <<skipped_repos, persisted, transient, reportVars, normVars, mgrVars>>

\* the head of the for loop: return, skip a repository of the manager, or enter the try
RestRepo ==
    /\ pc = "for"
    /\ impl = "rest"
    /\ \/ /\ idx > Len(repos)
          /\ pc' = "returned"
          /\ result' = data
          /\ UNCHANGED <<idx, fetched>>
       \/ /\ idx <= Len(repos)
          /\ is_skipped(skipped_repos, repos[idx])
          /\ pc' = "for"
          /\ idx' = idx + 1
          /\ UNCHANGED <<result, fetched>>
       \/ /\ idx <= Len(repos)
          /\ ~is_skipped(skipped_repos, repos[idx])
          /\ pc' = "try"
          /\ UNCHANGED <<result, idx, fetched>>
    /\ UNCHANGED <<impl, repos, start_date, end_date, skip_labels, has_next_page,
                   after_cursor, data, error, skipped_repos, persisted, log,
                   transient, runs, reportVars, normVars, mgrVars>>

\* a variant that adds the repository whatever the status
OnGithubException_AlwaysAdd(status) == "add"

\* except GithubException: does the handler add the repository to the manager
OnGithubException(status) ==
    IF status = 403 THEN "add"
    ELSE IF status = 404 THEN "add"
    ELSE "log"

\* one remote interaction inside the try (get_repo, search_issues, the iteration over
\* the issues, a pull request's reviews and comments), and the handling of its answer
RestStep(resp, partial) ==
    /\ pc = "try"
    /\ impl = "rest"
    /\ resp.kind = "issue" => fetched < MaxItems
    /\ resp.kind # "Exception" => partial = 0
    /\ LET repo_name == repos[idx]
           kind == IF resp.kind = "GithubException" THEN resp.cause ELSE resp.kind
           left == Prefix(NormalizeIssue(Issue1, repo_name, skip_labels), partial)
           got == IF resp.kind = "issue"
                  THEN NormalizeIssue(resp.issue, repo_name, skip_labels) ELSE left
       IN  /\ log' = Append(log, LogEntry(repo_name, idx, SearchQueryRest(repo_name), NULL,
                                           kind, NoPage, got))
           /\ transient' = (transient \/ (kind \in UnclassifiedKinds /\ repo_name = RepoNames[1]))
           /\ \/ /\ resp.kind = "issue"
                 /\ data' = Extend(data, got)
                 /\ fetched' = fetched + 1
                 /\ UNCHANGED <<pc, idx, skipped_repos, persisted>>
              \/ /\ resp.kind = "end"
                 /\ pc' = "for"
                 /\ idx' = idx + 1
                 /\ UNCHANGED <<data, fetched, skipped_repos, persisted>>
              \/ /\ resp.kind = "GithubException"
                 /\ OnGithubException(resp.status) = "add"
                 /\ UNCHANGED data
                 /\ skipped_repos' = Add(skipped_repos, persisted, repo_name)[1]
                 /\ persisted' = Add(skipped_repos, persisted, repo_name)[2]
                 /\ pc' = "for"
                 /\ idx' = idx + 1
                 /\ UNCHANGED fetched
              \/ /\ resp.kind = "GithubException"
                 /\ OnGithubException(resp.status) = "log"
                 /\ UNCHANGED data
                 /\ pc' = "for"
                 /\ idx' = idx + 1
                 /\ UNCHANGED <<fetched, skipped_repos, persisted>>
              \/ /\ resp.kind = "Exception"
                 /\ data' = Extend(data, got)
                 /\ pc' = "for"
                 /\ idx' = idx + 1
                 /\ UNCHANGED <<fetched, skipped_repos, persisted>>
    /\ UNCHANGED <<impl, repos, start_date, end_date, skip_labels, has_next_page,
                   after_cursor, result, error, runs, reportVars, normVars, mgrVars>>

\* a new process: main of stats.py builds a SkippedReposManager, which loads the file
Restart ==
    /\ pc \in {"returned", "raised"}
    /\ pc' = "idle"
    /\ skipped_repos' = Load(persisted)
    /\ impl' = "none"
    /\ repos' = <<>>
    /\ start_date' = NoDate
    /\ end_date' = NoDate
    /\ idx' = 1
    /\ data' = <<>>
    /\ result' = <<>>
    /\ error' = NULL
    /\ log' = <<>>
    /\ UNCHANGED <<skip_labels, has_next_page, after_cursor, fetched, persisted,
                   transient, runs, reportVars, normVars, mgrVars>>

\* is_skipped has not been asked
NoAnswer == [repo |-> NULL, skipped |-> FALSE]

\* no generate_report call has ended yet
NoCall == [shown |-> <<>>, error |-> NULL]

\* nothing is being normalised on its own
NormalizeIdle ==
    /\ config = [present |-> FALSE, skip_labels |-> <<>>]
    /\ node = NullNode
    /\ out = <<>>
    /\ npc = "none"

Init ==
    /\ pc = "idle"
    /\ impl = "none"
    /\ repos = <<>>
    /\ start_date = NoDate
    /\ end_date = NoDate
    /\ skip_labels = <<"release">>
    /\ idx = 1
    /\ has_next_page = FALSE
    /\ after_cursor = NULL
    /\ fetched = 0
    /\ data = <<>>
    /\ result = <<>>
    /\ error = NULL
    /\ persisted \in SkipLists
    /\ skipped_repos = Load(persisted)
    /\ log = <<>>
    /\ transient = FALSE
    /\ runs = 0
    /\ df = <<>>
    /\ users_filter = {}
    /\ skip_users = {}
    /\ metrics = <<>>
    /\ sort_by = NULL
    /\ output_file = NULL
    /\ print_to_terminal = FALSE
    /\ rpc = "none"
    /\ repositories = <<>>
    /\ ridx = 1
    /\ output_buffer = <<>>
    /\ terminal = <<>>
    /\ saved = <<>>
    /\ rerror = NULL
    /\ given = <<>>
    /\ calls = 0
    /\ previous = NoCall
    /\ sorted_memo = <<>>
    /\ NormalizeIdle
    /\ answer = NoAnswer

Next ==
    \/ \E rs \in RepoLists, sd \in Dates, ed \in Dates : StartGraphql(rs, sd, ed)
    \/ GraphqlRepo
    \/ \E resp \in GraphqlResponses : GraphqlPage(resp)
    \/ \E rs \in RepoLists, sd \in Dates, ed \in Dates : StartRest(rs, sd, ed)
    \/ RestRepo
    \/ \E resp \in RestResponses, partial \in PartialSamples : RestStep(resp, partial)
    \/ Restart

Spec == Init /\ [][Next]_vars

\* fetcher.py alone, with a call in progress running on: the interpreter takes the next
\* step of the for loop, and every request of the while loop is answered. The source
\* reports at most MaxPages pages to one call (the guard of GraphqlPage), after which a
\* request is answered by an error.
NextGraphql ==
    \/ \E rs \in RepoLists, sd \in Dates, ed \in Dates : StartGraphql(rs, sd, ed)
    \/ GraphqlRepo
    \/ \E resp \in GraphqlResponses : GraphqlPage(resp)
    \/ Restart

SpecTerminates ==
    /\ Init
    /\ [][NextGraphql]_vars
    /\ WF_vars(GraphqlRepo)
    /\ WF_vars(\E resp \in GraphqlResponses : GraphqlPage(resp))

\* ------------------------------------------------ reporter.py: StatsReporter
MaxEvents == 3
MaxCalls == 2

all_cols ==
    <<"PRs Created", "Reviews: Approved", "Reviews: Changes Req.", "Reviews: Commented",
      "Total Comments", "Avg PR Size (loc)", "Avg Merge Time (h)">>

MetricKeys ==
    {"pr_created", "reviews_approved", "reviews_changes_requested", "reviews_commented",
     "comments", "avg_pr_size", "avg_merge_time"}

metric_map(m) ==
    CASE m = "pr_created" -> "PRs Created"
      [] m = "reviews_approved" -> "Reviews: Approved"
      [] m = "reviews_changes_requested" -> "Reviews: Changes Req."
      [] m = "reviews_commented" -> "Reviews: Commented"
      [] m = "comments" -> "Total Comments"
      [] m = "avg_pr_size" -> "Avg PR Size (loc)"
      [] m = "avg_merge_time" -> "Avg Merge Time (h)"

\* column_mapping, read from the column to the event type it counts
column_mapping(col) ==
    CASE col = "PRs Created" -> "pr_created"
      [] col = "Reviews: Approved" -> "review_approved"
      [] col = "Reviews: Changes Req." -> "review_changes_requested"
      [] col = "Reviews: Commented" -> "review_commented"
      [] col = "Total Comments" -> "comment"

CountCols ==
    {"PRs Created", "Reviews: Approved", "Reviews: Changes Req.", "Reviews: Commented",
     "Total Comments"}

\* a variant in which an inclusion list switches the exclusion off
FilterUsers_IncludeWins(d, include, exclude) ==
    IF include # {} THEN SelectSeq(d, LAMBDA e : e.user \in include)
    ELSE IF exclude # {} THEN SelectSeq(d, LAMBDA e : e.user \notin exclude)
    ELSE d

\* df[df['user'].isin(users_filter)] and df[~df['user'].isin(skip_users)]
FilterUsers(d, include, exclude) ==
    LET a == IF include # {} THEN SelectSeq(d, LAMBDA e : e.user \in include) ELSE d
    IN  IF exclude # {} THEN SelectSeq(a, LAMBDA e : e.user \notin exclude) ELSE a

\* df['repo'].unique(): the repositories in order of first appearance
RECURSIVE unique(_)
unique(s) ==
    IF s = <<>> THEN <<>>
    ELSE <<Head(s)>> \o unique(SelectSeq(Tail(s), LAMBDA x : x # Head(s)))

RepoDf(d, repo) == SelectSeq(d, LAMBDA e : e.repo = repo)

RECURSIVE SumField(_, _)
SumField(s, f) == IF s = <<>> THEN 0 ELSE Head(s)[f] + SumField(Tail(s), f)

\* groupby(['user', 'type'])['count'].sum().unstack(fill_value=0): one cell
GroupCount(repo_df, user, type) ==
    SumField(SelectSeq(repo_df, LAMBDA e : e.user = user /\ e.type = type), "count")

\* groupby sorts its keys: the users of a partition in ascending order
UserOrder == <<"alice", "bob", "carol", "unknown">>
GroupUsers(repo_df) ==
    SelectSeq(UserOrder, LAMBDA u : \E k \in DOMAIN repo_df : repo_df[k].user = u)

\* num / den rounded to the nearest integer, halves to the even one (numpy's round)
RoundHalfEven(num, den) ==
    LET q == num \div den
        r == num % den
    IN  IF 2 * r < den THEN q
        ELSE IF 2 * r > den THEN q + 1
        ELSE IF q % 2 = 0 THEN q ELSE q + 1

\* groupby('user')['merge_time_hours'].mean(), joined with fillna(0) and rounded to one
\* decimal: tenths of an hour from hundredths
AvgMergeTime(repo_df, user) ==
    LET merged == SelectSeq(repo_df, LAMBDA e : e.user = user /\ e.type = "pr_merged")
    IN  IF merged = <<>> THEN 0
        ELSE RoundHalfEven(SumField(merged, "merge_time_hours"), 10 * Len(merged))

\* pr_created_df is not empty: line 61 then evaluates pd.DataFrame, and the module
\* imports no pd
RaisesNameError(repo_df) == \E k \in DOMAIN repo_df : repo_df[k].type = "pr_created"

\* one cell of summary on the path that does not raise (avg_pr_size is then the 0 of line 66)
Cell(repo_df, user, col) ==
    IF col \in CountCols THEN GroupCount(repo_df, user, column_mapping(col))
    ELSE IF col = "Avg PR Size (loc)" THEN 0
    ELSE AvgMergeTime(repo_df, user)

\* selected_cols / final_cols of the column selection
SelectedCols(ms) ==
    LET valid == SelectSeq(ms, LAMBDA m : m \in MetricKeys)
    IN  [k \in DOMAIN valid |-> metric_map(valid[k])]

NoValidMetrics(ms) == ms # <<>> /\ SelectedCols(ms) = <<>>

FinalCols(ms) ==
    IF ms # <<>> /\ SelectedCols(ms) # <<>> THEN SelectedCols(ms) ELSE all_cols

Row(repo_df, user, cols) ==
    [user |-> user, vals |-> [c \in Range(cols) |-> Cell(repo_df, user, c)]]

\* summary.sum(axis=1), in tenths
RECURSIVE RowSum(_, _)
RowSum(row, cols) ==
    IF cols = <<>> THEN 0
    ELSE (IF Head(cols) = "Avg Merge Time (h)" THEN row.vals[Head(cols)]
          ELSE 10 * row.vals[Head(cols)])
         + RowSum(row, Tail(cols))

\* summary[summary.sum(axis=1) > 0]
DropInactive(rows, cols) == SelectSeq(rows, LAMBDA row : RowSum(row, cols) > 0)

SummaryRows(repo_df, cols) ==
    LET users == GroupUsers(repo_df)
    IN  DropInactive([k \in DOMAIN users |-> Row(repo_df, users[k], cols)], cols)

\* sort_col, with the fallback to the first column
SortCol(key, cols) ==
    LET sort_col == IF key \in MetricKeys THEN metric_map(key) ELSE "PRs Created"
    IN  IF sort_col \in Range(cols) THEN sort_col ELSE cols[1]

\* sort_values(col, ascending=False) with the default, unstable, kind: every order of
\* the rows that descends in col
SortValues(rows, col) ==
    {p \in {[i \in DOMAIN rows |-> rows[f[i]]] : f \in Permutations(DOMAIN rows)} :
        \A i, j \in DOMAIN p : i < j => p[i].vals[col] >= p[j].vals[col]}

Item(kind, repo, columns, rows) ==
    [kind |-> kind, repo |-> repo, columns |-> columns, rows |-> rows]

\* a variant without the "if summary.empty: continue"
RepoItems_EmitEmpty(repo, ms, cols, sorted) ==
    (IF NoValidMetrics(ms) THEN <<Item("warning", repo, <<>>, <<>>)>> ELSE <<>>)
    \o <<Item("table", repo, cols, sorted)>>

\* the lines print_out emits for one repository, given the order the sort produced
RepoItems(repo, ms, cols, sorted) ==
    (IF NoValidMetrics(ms) THEN <<Item("warning", repo, <<>>, <<>>)>> ELSE <<>>)
    \o (IF sorted = <<>> THEN <<>> ELSE <<Item("table", repo, cols, sorted)>>)

\* print_out: to the terminal if asked, to the buffer always
PrintOut(items) ==
    /\ terminal' = (IF print_to_terminal THEN terminal \o items ELSE terminal)
    /\ output_buffer' = output_buffer \o items

\* a variant that opens the file for appending
SaveOutput_Append(buffer) ==
    saved' = (IF output_file # NULL THEN saved \o buffer ELSE saved)

\* _save_output
SaveOutput(buffer) ==
    saved' = (IF output_file # NULL THEN buffer ELSE saved)

\* generate_report up to the loop over the repositories
ReportBegin ==
    /\ rpc = "new"
    /\ LET filtered == FilterUsers(df, users_filter, skip_users)
       IN  \/ /\ df = <<>>
              /\ PrintOut(<<Item("no_data", NULL, <<>>, <<>>)>>)
              /\ SaveOutput(output_buffer')
              /\ rpc' = "done"
              /\ UNCHANGED <<df, repositories>>
           \/ /\ df # <<>>
              /\ filtered = <<>>
              /\ df' = filtered
              /\ PrintOut(<<Item("no_data_after_filter", NULL, <<>>, <<>>)>>)
              /\ SaveOutput(output_buffer')
              /\ rpc' = "done"
              /\ UNCHANGED repositories
           \/ /\ filtered # <<>>
              /\ df' = filtered
              /\ repositories' = unique([k \in DOMAIN filtered |-> filtered[k].repo])
              /\ rpc' = "loop"
              /\ UNCHANGED <<output_buffer, terminal, saved>>
    /\ ridx' = 1
    /\ UNCHANGED <<users_filter, skip_users, metrics, sort_by, output_file,
                   print_to_terminal, rerror, given, calls, previous, sorted_memo,
                   fetchVars, normVars, mgrVars>>

\* one turn of the loop over the repositories
ReportRepo ==
    /\ rpc = "loop"
    /\ ridx <= Len(repositories)
    /\ LET repo == repositories[ridx]
           repo_df == RepoDf(df, repo)
           cols == FinalCols(metrics)
           rows == SummaryRows(repo_df, cols)
       IN  \/ /\ RaisesNameError(repo_df)
              /\ rpc' = "raised"
              /\ rerror' = "NameError"
              /\ output_buffer' = <<>>
              /\ UNCHANGED <<ridx, terminal, sorted_memo>>
           \/ /\ ~RaisesNameError(repo_df)
              /\ \E sorted \in SortValues(rows, SortCol(sort_by, cols)) :
                    /\ repo \in DOMAIN sorted_memo => sorted = sorted_memo[repo]
                    /\ sorted_memo' = (repo :> sorted) @@ sorted_memo
                    /\ PrintOut(RepoItems(repo, metrics, cols, sorted))
              /\ ridx' = ridx + 1
              /\ UNCHANGED <<rpc, rerror>>
    /\ UNCHANGED <<df, users_filter, skip_users, metrics, sort_by, output_file,
                   print_to_terminal, repositories, saved, given, calls, previous,
                   fetchVars, normVars, mgrVars>>

\* the end of generate_report
ReportSave ==
    /\ rpc = "loop"
    /\ ridx > Len(repositories)
    /\ SaveOutput(output_buffer)
    /\ rpc' = "done"
    /\ UNCHANGED <<df, users_filter, skip_users, metrics, sort_by, output_file,
                   print_to_terminal, repositories, ridx, output_buffer, terminal,
                   rerror, given, calls, previous, sorted_memo, fetchVars, normVars, mgrVars>>

\* the event streams and settings a report is generated for
EventSamples ==
    {Event("comment", "alice", "o/r1", 1 * DayUnits, NaN, NaN, NaN),
     Event("comment", "bob", "o/r1", 1 * DayUnits, NaN, NaN, NaN),
     Event("review_approved", "bob", "o/r1", 1 * DayUnits, NaN, NaN, NaN),
     Event("pr_merged", "alice", "o/r1", 1 * DayUnits, NaN, NaN, 150),
     Event("pr_merged", "bob", "o/r2", 1 * DayUnits, NaN, NaN, 4),
     Event("pr_created", "alice", "o/r1", 1 * DayUnits, 10, 5, NaN),
     Event("comment", "carol", "o/r2", 1 * DayUnits, NaN, NaN, NaN)}

Streams == UNION {[1..n -> EventSamples] : n \in 0..MaxEvents}
UserFilters ==
    {<<{}, {}>>, <<{"alice", "bob"}, {}>>, <<{}, {"bob"}>>, <<{"alice", "bob"}, {"bob"}>>}
MetricLists == {<<>>, <<"bogus">>, <<"avg_merge_time", "bogus", "comments">>}
SortKeys == {NULL, "comments"}
Sinks == {<<"report.md", FALSE>>, <<NULL, TRUE>>}

InitReport ==
    /\ pc = "idle"
    /\ impl = "none"
    /\ repos = <<>>
    /\ start_date = NoDate
    /\ end_date = NoDate
    /\ skip_labels = <<"release">>
    /\ idx = 1
    /\ has_next_page = FALSE
    /\ after_cursor = NULL
    /\ fetched = 0
    /\ data = <<>>
    /\ result = <<>>
    /\ error = NULL
    /\ persisted = <<>>
    /\ skipped_repos = <<>>
    /\ log = <<>>
    /\ transient = FALSE
    /\ runs = 0
    /\ df \in Streams
    /\ \E f \in UserFilters : users_filter = f[1] /\ skip_users = f[2]
    /\ metrics \in MetricLists
    /\ sort_by \in SortKeys
    /\ \E sink \in Sinks : output_file = sink[1] /\ print_to_terminal = sink[2]
    /\ rpc = "new"
    /\ repositories = <<>>
    /\ ridx = 1
    /\ output_buffer = <<>>
    /\ terminal = <<>>
    /\ saved = <<>>
    /\ rerror = NULL
    /\ given = df
    /\ calls = 1
    /\ previous = NoCall
    /\ sorted_memo = <<>>
    /\ NormalizeIdle
    /\ answer = NoAnswer

\* generate_report is called again on the same StatsReporter
ReportAgain ==
    /\ rpc \in {"done", "raised"}
    /\ calls < MaxCalls
    /\ calls' = calls + 1
    /\ previous' = [shown |-> IF print_to_terminal THEN terminal ELSE saved,
                     error |-> rerror]
    /\ rpc' = "new"
    /\ rerror' = NULL
    /\ output_buffer' = <<>>
    /\ terminal' = <<>>
    /\ repositories' = <<>>
    /\ ridx' = 1
    /\ UNCHANGED <<df, users_filter, skip_users, metrics, sort_by, output_file,
                   print_to_terminal, saved, given, sorted_memo, fetchVars, normVars, mgrVars>>

NextReport ==
    \/ ReportBegin
    \/ ReportRepo
    \/ ReportSave
    \/ ReportAgain

SpecReport == InitReport /\ [][NextReport]_vars

\* ------------------------------ one item through get_skip_labels and fetch_stats
\* config.get("skip_labels", ["release"]), each label lowered
get_skip_labels(cfg) ==
    LET labels == IF cfg.present THEN cfg.skip_labels ELSE <<"release">>
    IN  [k \in DOMAIN labels |-> lower(labels[k])]

ConfigSamples ==
    {[present |-> FALSE, skip_labels |-> <<>>],
     [present |-> TRUE, skip_labels |-> <<>>],
     [present |-> TRUE, skip_labels |-> <<"Release">>],
     [present |-> TRUE, skip_labels |-> <<"BUG", "wip">>]}

LabelLists == {<<>>, <<"Bug">>, <<"Release">>, <<"docs", "RELEASE">>, <<"released">>, <<"WIP">>}
SizeSamples == {[additions |-> 10, deletions |-> 5], [additions |-> 0, deletions |-> 3]}
\* creation and merge of an item: not merged, merged 90 minutes later in the same day,
\* merged 90 minutes later over midnight, merged in the minute of its creation
TimeSamples ==
    {[createdAt |-> Stamp(1, 0), mergedAt |-> NullStamp],
     [createdAt |-> Stamp(1, 0), mergedAt |-> Stamp(1, 150)],
     [createdAt |-> Stamp(1, 2350), mergedAt |-> Stamp(2, 100)],
     [createdAt |-> Stamp(2, 100), mergedAt |-> Stamp(2, 100)]}

\* the reviews, comments and review threads of an item: none, one of each, and a mix
\* with absent authors, states that are not counted and an empty thread
ActivitySamples ==
    {[reviews |-> <<>>, comments |-> <<>>, reviewThreads |-> <<>>],
     [reviews |-> <<[author |-> "bob", state |-> "APPROVED"]>>,
      comments |-> <<[author |-> "bob", createdAt |-> Stamp(2, 200)]>>,
      reviewThreads |-> <<>>],
     [reviews |-> <<[author |-> NULL, state |-> "COMMENTED"],
                    [author |-> "bob", state |-> "DISMISSED"],
                    [author |-> "bob", state |-> "CHANGES_REQUESTED"],
                    [author |-> "carol", state |-> "COMMENTED"],
                    [author |-> "bob", state |-> "PENDING"],
                    [author |-> "bob", state |-> "APPROVED"]>>,
      comments |-> <<[author |-> NULL, createdAt |-> Stamp(2, 200)],
                     [author |-> "alice", createdAt |-> Stamp(2, 210)]>>,
      reviewThreads |-> << <<[author |-> NULL, createdAt |-> Stamp(2, 300)],
                             [author |-> "alice", createdAt |-> Stamp(2, 310)]>>,
                           <<>>,
                           <<[author |-> "bob", createdAt |-> Stamp(2, 320)]>> >>]}

NodeSamples ==
    {NullNode} \cup
    {[present |-> TRUE, author |-> a, createdAt |-> t.createdAt, mergedAt |-> t.mergedAt,
      labels |-> l, additions |-> z.additions, deletions |-> z.deletions,
      reviews |-> v.reviews, comments |-> v.comments,
      reviewThreads |-> v.reviewThreads] :
        a \in {"alice", NULL}, t \in TimeSamples, l \in LabelLists, z \in SizeSamples,
        v \in ActivitySamples}

\* skip_labels = loader.get_skip_labels()
GetSkipLabels ==
    /\ npc = "config"
    /\ skip_labels' = get_skip_labels(config)
    /\ npc' = "item"
    /\ UNCHANGED <<pc, impl, repos, start_date, end_date, idx, has_next_page, after_cursor,
                   fetched, data, result, error, skipped_repos, persisted, log, transient,
                   runs, config, node, out, reportVars, mgrVars>>

\* the body of "for node in nodes" for one node
NormalizeOne ==
    /\ npc = "item"
    /\ out' = NormalizeNode(node, RepoNames[1], skip_labels)
    /\ npc' = "done"
    /\ UNCHANGED <<config, node, fetchVars, reportVars, mgrVars>>

InitNormalize ==
    /\ pc = "idle"
    /\ impl = "none"
    /\ repos = <<>>
    /\ start_date = NoDate
    /\ end_date = NoDate
    /\ skip_labels = <<"release">>
    /\ idx = 1
    /\ has_next_page = FALSE
    /\ after_cursor = NULL
    /\ fetched = 0
    /\ data = <<>>
    /\ result = <<>>
    /\ error = NULL
    /\ persisted = <<>>
    /\ skipped_repos = <<>>
    /\ log = <<>>
    /\ transient = FALSE
    /\ runs = 0
    /\ df = <<>>
    /\ users_filter = {}
    /\ skip_users = {}
    /\ metrics = <<>>
    /\ sort_by = NULL
    /\ output_file = NULL
    /\ print_to_terminal = FALSE
    /\ rpc = "none"
    /\ repositories = <<>>
    /\ ridx = 1
    /\ output_buffer = <<>>
    /\ terminal = <<>>
    /\ saved = <<>>
    /\ rerror = NULL
    /\ given = <<>>
    /\ calls = 0
    /\ previous = NoCall
    /\ sorted_memo = <<>>
    /\ config \in ConfigSamples
    /\ node \in NodeSamples
    /\ out = <<>>
    /\ npc = "config"
    /\ answer = NoAnswer

NextNormalize ==
    \/ GetSkipLabels
    \/ NormalizeOne

SpecNormalize == InitNormalize /\ [][NextNormalize]_vars

\* ------------------------------------------ stats.py: SkippedReposManager on its own
\* skipped_manager.add(repo_name)
ManagerAdd(repo_name) ==
    /\ skipped_repos' = Add(skipped_repos, persisted, repo_name)[1]
    /\ persisted' = Add(skipped_repos, persisted, repo_name)[2]
    /\ answer' = NoAnswer
    /\ UNCHANGED <<pc, impl, repos, start_date, end_date, skip_labels, idx, has_next_page,
                   after_cursor, fetched, data, result, error, log, transient, runs,
                   reportVars, normVars>>

\* skipped_manager.is_skipped(repo_name)
ManagerIsSkipped(repo_name) ==
    /\ answer' = [repo |-> repo_name, skipped |-> is_skipped(skipped_repos, repo_name)]
    /\ UNCHANGED <<fetchVars, reportVars, normVars>>

\* a new process builds a new SkippedReposManager, which loads the file
ManagerNew ==
    /\ skipped_repos' = Load(persisted)
    /\ answer' = NoAnswer
    /\ UNCHANGED <<pc, impl, repos, start_date, end_date, skip_labels, idx, has_next_page,
                   after_cursor, fetched, data, result, error, persisted, log, transient,
                   runs, reportVars, normVars>>

InitManager ==
    /\ pc = "idle"
    /\ impl = "none"
    /\ repos = <<>>
    /\ start_date = NoDate
    /\ end_date = NoDate
    /\ skip_labels = <<"release">>
    /\ idx = 1
    /\ has_next_page = FALSE
    /\ after_cursor = NULL
    /\ fetched = 0
    /\ data = <<>>
    /\ result = <<>>
    /\ error = NULL
    /\ persisted \in SkipLists
    /\ skipped_repos = Load(persisted)
    /\ log = <<>>
    /\ transient = FALSE
    /\ runs = 0
    /\ df = <<>>
    /\ users_filter = {}
    /\ skip_users = {}
    /\ metrics = <<>>
    /\ sort_by = NULL
    /\ output_file = NULL
    /\ print_to_terminal = FALSE
    /\ rpc = "none"
    /\ repositories = <<>>
    /\ ridx = 1
    /\ output_buffer = <<>>
    /\ terminal = <<>>
    /\ saved = <<>>
    /\ rerror = NULL
    /\ given = <<>>
    /\ calls = 0
    /\ previous = NoCall
    /\ sorted_memo = <<>>
    /\ NormalizeIdle
    /\ answer = NoAnswer

NextManager ==
    \/ \E repo_name \in Repos : ManagerAdd(repo_name)
    \/ \E repo_name \in Repos : ManagerIsSkipped(repo_name)
    \/ ManagerNew

SpecManager == InitManager /\ [][NextManager]_vars

\* ================================================================ claims
Ended == pc \in {"returned", "raised"}
Requested(repo_name) == \E k \in DOMAIN log : log[k].repo = repo_name
Collected == ConcatAll([k \in DOMAIN log |-> log[k].got])
DenialKinds == {"forbidden", "notfound"}

\* C1: in fetch_stats of fetcher.py, a page answered with the rate-limit error is the
\* last request of the call: the call ends at once with RateLimitExceededError raised
\* to the caller, and hands the caller no stream (nothing collected so far survives).
C1_RateLimitAborts ==
    impl = "graphql" =>
        \A k \in DOMAIN log :
            log[k].kind = "rate" =>
                /\ k = Len(log)
                /\ pc = "raised"
                /\ error = "RateLimitExceededError"
                /\ result = <<>>
                /\ data = <<>>

\* C1 witness: the rate limit hits after records were collected and before the last
\* repository of the list.
C1_Witness ==
    /\ impl = "graphql"
    /\ pc = "raised"
    /\ Len(log) >= 2
    /\ Last(log).kind = "rate"
    /\ log[1].got # <<>>
    /\ idx < Len(repos)

\* C2: the SkipRegistry changes only in the step that answers a request with forbidden
\* or not found; never in a step that answers with the rate limit.
C2_NoSkipOnRateLimit ==
    [][skipped_repos' # skipped_repos =>
          /\ Len(log') = Len(log) + 1
          /\ Last(log').kind \in DenialKinds]_vars

\* C3: once a request for a repository is answered forbidden or not found, the
\* repository is in the SkipRegistry and in the persisted list, and if that was the
\* call's last request so far, the call has moved past the repository with everything
\* collected so far still in its stream.
C3_DenialMarksSkipped ==
    \A k \in DOMAIN log :
        log[k].kind \in DenialKinds =>
            /\ log[k].repo \in Range(skipped_repos)
            /\ log[k].repo \in Range(persisted)
            /\ k = Len(log) =>
                  /\ pc # "raised"
                  /\ \E i \in 1..(idx - 1) : repos[i] = log[k].repo
                  /\ data = Collected
                  /\ pc = "returned" => result = Collected

\* C4: no request is issued for a repository that is in the SkipRegistry (the
\* persisted list) when the request is made.
C4_SkippedNotContacted ==
    [][Len(log') = Len(log) + 1 => Last(log').repo \notin Range(persisted)]_vars

\* C5: a step that answers a request with an error that is neither the rate limit nor
\* forbidden / not found leaves the SkipRegistry and the persisted list as they were;
\* and a call at a repository that is not in the SkipRegistry does not pass it over.
C5_OtherErrorsLeaveRegistry ==
    [][/\ (Len(log') = Len(log) + 1 /\ Last(log').kind \in UnclassifiedKinds) =>
            skipped_repos' = skipped_repos /\ persisted' = persisted
       /\ (pc = "for" /\ idx <= Len(repos) /\ ~is_skipped(skipped_repos, repos[idx])) =>
            ~(idx' = idx + 1 /\ log' = log)]_vars

\* C5 witness: the REST call contacts again, in a second call, a repository that an
\* earlier call failed on with an unclassified error.
C5_Witness ==
    /\ impl = "rest"
    /\ runs = 2
    /\ log # <<>>
    /\ Last(log).kind = "issue"
    /\ Last(log).repo = RepoNames[1]
    /\ transient

\* C6: a call in which no request is answered with the rate limit ends by returning a
\* stream, and by then has contacted every repository of its list that is not in the
\* SkipRegistry.
C6_NoRecoverableErrorStops ==
    (Ended /\ \A k \in DOMAIN log : log[k].kind # "rate") =>
        /\ pc = "returned"
        /\ \A i \in DOMAIN repos : ~is_skipped(skipped_repos, repos[i]) => Requested(repos[i])

\* C7: in fetch_stats of fetcher.py, a page request that fails (not by the rate limit)
\* is the last request for its repository, and the records of every page fetched
\* before it stay in data and are in the stream the call returns.
C7_FailedPageEndsRepository ==
    impl = "graphql" =>
        /\ \A k \in DOMAIN log :
              log[k].kind \in (DenialKinds \cup UnclassifiedKinds) =>
                  \A j \in DOMAIN log : j > k => log[j].repo # log[k].repo
        /\ pc # "raised" => data = Collected
        /\ pc = "returned" => result = Collected

\* C7 witness: the second page of a repository fails, and the call returns the records
\* of its first page.
C7_Witness ==
    /\ impl = "graphql"
    /\ pc = "returned"
    /\ \E k \in DOMAIN log :
          /\ k > 1
          /\ log[k].kind \in UnclassifiedKinds
          /\ log[k - 1].repo = log[k].repo
          /\ log[k - 1].got # <<>>
          /\ log[k].after # NULL
    /\ result # <<>>


\* ------------------------------------------------ claims about the report
ReportEnded == rpc \in {"done", "raised"}

\* what the report shows its reader: the terminal, or the file it saved
Shown == IF print_to_terminal THEN terminal ELSE saved

Tables(repo) ==
    {k \in DOMAIN Shown : Shown[k].kind = "table" /\ Shown[k].repo = repo}

\* the records of the filtered stream with one (repository, user, event type)
Matching(repo, user, type) ==
    Cardinality({k \in DOMAIN df :
        df[k].repo = repo /\ df[k].user = user /\ df[k].type = type})

KeptCountCols == Range(FinalCols(metrics)) \cap CountCols

Users == Range(UserOrder)

RowOf(table, user) == {i \in DOMAIN table.rows : table.rows[i].user = user}

\* C8: once the report has ended, every (repository, user, event type) with records in
\* the stream and a column kept for that event type is shown in the table of the
\* repository, once, with exactly the number of its records.
C8_CountsAreExact ==
    ReportEnded =>
        \A repo \in Range(repositories), user \in Users, col \in KeptCountCols :
            Matching(repo, user, column_mapping(col)) > 0 =>
                /\ Cardinality(Tables(repo)) = 1
                /\ \A k \in Tables(repo) :
                      /\ Cardinality(RowOf(Shown[k], user)) = 1
                      /\ \A i \in RowOf(Shown[k], user) :
                            Shown[k].rows[i].vals[col]
                                = Matching(repo, user, column_mapping(col))

\* C9: once the report has ended, no row shown has a zero in every kept column, and
\* every user with records of an event type whose column is kept has a row in the
\* table of the repository.
C9_RowDropping ==
    ReportEnded =>
        /\ \A k \in DOMAIN Shown : Shown[k].kind = "table" =>
              \A i \in DOMAIN Shown[k].rows :
                  \E c \in Range(Shown[k].columns) : Shown[k].rows[i].vals[c] # 0
        /\ \A repo \in Range(repositories), user \in Users :
              (\E col \in KeptCountCols : Matching(repo, user, column_mapping(col)) > 0)
                  => \E k \in Tables(repo) : RowOf(Shown[k], user) # {}

\* the column the rows are to be ordered by: the one mapped from sort_by, PRs Created
\* by default, the first kept column when that one is not kept
OrderCol ==
    LET wanted == IF sort_by \in MetricKeys THEN metric_map(sort_by) ELSE "PRs Created"
    IN  IF wanted \in Range(FinalCols(metrics)) THEN wanted ELSE FinalCols(metrics)[1]

\* C10: once the report has ended, every table shown descends in the ordering column,
\* and every user with records counted in that column stands in the table of the
\* repository (so that PRs-Created counts of 2 and 0 for alice and bob give alice, bob).
C10_SortedDescending ==
    ReportEnded =>
        /\ \A k \in DOMAIN Shown : Shown[k].kind = "table" =>
              \A i, j \in DOMAIN Shown[k].rows :
                  i < j => Shown[k].rows[i].vals[OrderCol] >= Shown[k].rows[j].vals[OrderCol]
        /\ OrderCol \in CountCols =>
              \A repo \in Range(repositories), user \in Users :
                  Matching(repo, user, column_mapping(OrderCol)) > 0
                      => \E k \in Tables(repo) :
                            \E i \in RowOf(Shown[k], user) :
                                Shown[k].rows[i].vals[OrderCol]
                                    = Matching(repo, user, column_mapping(OrderCol))

\* the keys of metrics that name a metric, and the columns they select
Recognized == SelectSeq(metrics, LAMBDA m : m \in MetricKeys)

ExpectedCols ==
    IF Recognized = <<>> THEN Range(all_cols)
    ELSE {metric_map(m) : m \in Range(Recognized)}

IsTable(item) == item.kind = "table"

\* C12: once the report has ended, every table shown has exactly the columns of the
\* recognized keys of metrics, or all columns when metrics is absent or holds no
\* recognized key; and when metrics is given without a recognized key, a warning is
\* shown for every repository of the stream.
C12_ColumnSelection ==
    ReportEnded =>
        /\ \A k \in DOMAIN Shown :
              IsTable(Shown[k]) => Range(Shown[k].columns) = ExpectedCols
        /\ (metrics # <<>> /\ Recognized = <<>>) =>
              \A repo \in Range(repositories) :
                  \E k \in DOMAIN Shown :
                      Shown[k].kind = "warning" /\ Shown[k].repo = repo

\* the records of the stream the reporter was given, with one (repository, user, type)
MatchingGiven(repo, user, type) ==
    Cardinality({k \in DOMAIN given :
        given[k].repo = repo /\ given[k].user = user /\ given[k].type = type})

\* C13: every row shown belongs to a user inside users_filter (when given) and outside
\* skip_users (when given), a user in both being excluded, and counts nothing but the
\* records of that user.
C13_UserFiltering ==
    \A k \in DOMAIN Shown : IsTable(Shown[k]) =>
        \A i \in DOMAIN Shown[k].rows :
            LET row == Shown[k].rows[i]
            IN  /\ users_filter # {} => row.user \in users_filter
                /\ skip_users # {} => row.user \notin skip_users
                /\ \A c \in Range(Shown[k].columns) \cap CountCols :
                      row.vals[c] = MatchingGiven(Shown[k].repo, row.user, column_mapping(c))

C13_Witness ==
    /\ rpc = "done"
    /\ users_filter = {"alice", "bob"}
    /\ skip_users = {"bob"}
    /\ \E k \in DOMAIN given : given[k].user = "bob" /\ given[k].repo = "o/r1"
    /\ \E k \in DOMAIN given : given[k].user = "carol"
    /\ \E k \in DOMAIN Shown :
          /\ IsTable(Shown[k])
          /\ Shown[k].repo = "o/r1"
          /\ \E i \in DOMAIN Shown[k].rows : Shown[k].rows[i].user = "alice"

\* C14: when a generate_report call on a reporter that was called before has ended, the
\* tables it shows are the tables the previous call showed.
C14_Idempotent ==
    (ReportEnded /\ calls >= 2) =>
        SelectSeq(Shown, IsTable) = SelectSeq(previous.shown, IsTable)

C14_Witness ==
    /\ rpc = "done"
    /\ calls = 2
    /\ df # given
    /\ \E k \in DOMAIN Shown : IsTable(Shown[k]) /\ Len(Shown[k].rows) >= 2
    /\ previous.shown # <<>>

\* the additions and deletions of the PrCreated records of a user in a repository
PrLines(repo, user) ==
    SumField(SelectSeq(df, LAMBDA e :
        e.repo = repo /\ e.user = user /\ e.type = "pr_created"), "additions")
    + SumField(SelectSeq(df, LAMBDA e :
        e.repo = repo /\ e.user = user /\ e.type = "pr_created"), "deletions")

ExpectedAvgPrSize(repo, user) ==
    IF Matching(repo, user, "pr_created") = 0 THEN 0
    ELSE RoundHalfEven(PrLines(repo, user), Matching(repo, user, "pr_created"))

\* C15: once the report has ended and Avg PR Size is a kept column, every row shown
\* carries (sum of additions + sum of deletions) / number of the user's PrCreated
\* records, rounded, 0 without such records; and a user whose average is not 0 has a row.
C15_AvgPrSize ==
    (ReportEnded /\ "Avg PR Size (loc)" \in ExpectedCols) =>
        \A repo \in Range(repositories), user \in Users :
            /\ \A k \in Tables(repo) : \A i \in RowOf(Shown[k], user) :
                  Shown[k].rows[i].vals["Avg PR Size (loc)"] = ExpectedAvgPrSize(repo, user)
            /\ ExpectedAvgPrSize(repo, user) > 0 =>
                  \E k \in Tables(repo) : RowOf(Shown[k], user) # {}

\* C17: no table shown is empty, a repository has at most one table per call, and a
\* repository none of whose users has a non-zero kept metric has no table.
C17_NoEmptyTable ==
    /\ \A k \in DOMAIN Shown : IsTable(Shown[k]) => Shown[k].rows # <<>>
    /\ ReportEnded =>
          \A repo \in Range(repositories) :
              /\ Cardinality(Tables(repo)) <= 1
              /\ SummaryRows(RepoDf(df, repo), FinalCols(metrics)) = <<>>
                    => Tables(repo) = {}

C17_Witness ==
    /\ rpc = "done"
    /\ \E repo \in Range(repositories) : Tables(repo) = {}
    /\ \E repo \in Range(repositories) : Tables(repo) # {}

\* ------------------------------------------------ claims about one item
\* the pull request carries a label equal, letter case aside, to a configured skip label
CarriesSkipLabel ==
    LET configured == IF config.present THEN config.skip_labels ELSE <<"release">>
    IN  \E i \in DOMAIN node.labels, k \in DOMAIN configured :
            lower(node.labels[i]) = lower(configured[k])

PrCreated == SelectSeq(out, LAMBDA e : e.type = "pr_created")

\* C11: the PrCreated record of an item carries additions 0 and deletions 0 if the item
\* has a label that equals a configured skip label case-insensitively, and the
\* additions and deletions of the item otherwise.
C11_LabelExclusion ==
    (npc = "done" /\ node.present) =>
        /\ Len(PrCreated) = 1
        /\ IF CarriesSkipLabel
           THEN PrCreated[1].additions = 0 /\ PrCreated[1].deletions = 0
           ELSE /\ PrCreated[1].additions = node.additions
                /\ PrCreated[1].deletions = node.deletions

C11_Witness ==
    /\ npc = "done"
    /\ node.present
    /\ config = [present |-> TRUE, skip_labels |-> <<"Release">>]
    /\ node.labels = <<"docs", "RELEASE">>
    /\ node.additions = 10
    /\ PrCreated[1].additions = 0

PrMerged == SelectSeq(out, LAMBDA e : e.type = "pr_merged")

\* C16: an item with a merge timestamp leaves exactly one PrMerged record, stamped with
\* the merge timestamp and carrying the hours from creation to merge (150 hundredths
\* for 90 minutes); an item without one leaves none.
C16_MergeRecord ==
    (npc = "done" /\ node.present) =>
        IF node.mergedAt = NullStamp THEN PrMerged = <<>>
        ELSE /\ Len(PrMerged) = 1
             /\ PrMerged[1].created_at = node.mergedAt.d * DayUnits + node.mergedAt.h
             /\ PrMerged[1].merge_time_hours =
                   (node.mergedAt.d - node.createdAt.d) * DayUnits
                   + (node.mergedAt.h - node.createdAt.h)

C16_Witness ==
    /\ npc = "done"
    /\ node.present
    /\ node.createdAt = Stamp(1, 2350)
    /\ node.mergedAt = Stamp(2, 100)
    /\ Len(PrMerged) = 1
    /\ PrMerged[1].merge_time_hours = 150

\* ------------------------------------------------ claims about the requests
\* the search predicate for a repository: its name, and the days the creation is
\* bounded by, each bound inclusive, NoDate for a side without a bound
ExpectedQuery(repo_name) ==
    [repo |-> repo_name,
     op |-> IF start_date # NoDate /\ end_date # NoDate THEN ".."
            ELSE IF start_date # NoDate THEN ">="
            ELSE IF end_date # NoDate THEN "<="
            ELSE "",
     from |-> IF start_date = NoDate THEN NoDate ELSE start_date \div DayUnits,
     to |-> IF end_date = NoDate THEN NoDate ELSE end_date \div DayUnits]

\* C18: every request asks for the pull requests of its repository created within
\* [start, end], an absent bound leaving its side open; and a call given an absent
\* bound that meets no rate limit returns, having requested every repository that is
\* not skipped.
C18_DateRange ==
    /\ \A k \in DOMAIN log : log[k].query = ExpectedQuery(log[k].repo)
    /\ (Ended /\ (start_date = NoDate \/ end_date = NoDate)
          /\ \A k \in DOMAIN log : log[k].kind # "rate") =>
          /\ pc = "returned"
          /\ \A i \in DOMAIN repos :
                ~is_skipped(skipped_repos, repos[i]) => Requested(repos[i])

\* C19: the first request for a repository carries no cursor; every later one follows
\* a page of the same repository that reported a further page, and carries the end
\* cursor of that page.
C19_CursorProtocol ==
    impl = "graphql" =>
        \A k \in DOMAIN log :
            IF k = 1 \/ log[k - 1].pos # log[k].pos
            THEN log[k].after = NULL
            ELSE /\ log[k - 1].kind = "data"
                 /\ log[k - 1].page.hasNextPage
                 /\ log[k].after = log[k - 1].page.endCursor

C19_Witness ==
    /\ impl = "graphql"
    /\ Len(log) >= 3
    /\ log[1].page.hasNextPage
    /\ log[2].pos = 1
    /\ log[2].after = "c1"
    /\ log[2].kind = "data"
    /\ log[3].pos = 2
    /\ log[3].after = NULL

\* C20: the requests follow the order of repos, none for a repository once a later one
\* has been requested, and in data and in the stream returned the records of an earlier
\* repository stand before the records of a later one.
C20_Sequential ==
    /\ \A j, k \in DOMAIN log : j < k => log[j].pos <= log[k].pos
    /\ \A k \in DOMAIN log : log[k].pos <= idx /\ repos[log[k].pos] = log[k].repo
    /\ \A s \in {data, result} : \A i, j \in DOMAIN s :
          i < j => \E a, b \in DOMAIN repos :
                      a <= b /\ repos[a] = s[i].repo /\ repos[b] = s[j].repo

C20_Witness ==
    /\ pc = "returned"
    /\ \E i, j \in DOMAIN result :
          i < j /\ result[i].repo = "o/r1" /\ result[j].repo = "o/r2"
    /\ \E k \in DOMAIN log : log[k].pos = 2

\* ------------------------------------------------ claims about the records of an item
ReviewTypes == {"review_approved", "review_changes_requested", "review_commented"}

\* the place of a record type in the order of an item's records
TypeRank(type) ==
    CASE type = "pr_created" -> 1
      [] type \in ReviewTypes -> 2
      [] type = "pr_merged" -> 3
      [] type = "comment" -> 4

\* C21: a non-null item leaves exactly one PrCreated record, first, by its author or by
\* "unknown" without one, and its records stand in the order PrCreated, reviews,
\* PrMerged, comments; a null node leaves no record.
C21_ItemRecords ==
    npc = "done" =>
        IF ~node.present THEN out = <<>>
        ELSE /\ Len(PrCreated) = 1
             /\ out[1].type = "pr_created"
             /\ out[1].user = (IF node.author = NULL THEN "unknown" ELSE node.author)
             /\ \A i, j \in DOMAIN out : i < j => TypeRank(out[i].type) <= TypeRank(out[j].type)

C21_Witness ==
    /\ npc = "done"
    /\ node.present
    /\ node.author = NULL
    /\ Len(PrMerged) = 1
    /\ \E i \in DOMAIN out : out[i].type \in ReviewTypes
    /\ \E i \in DOMAIN out : out[i].type = "comment"

C21_WitnessNull ==
    /\ npc = "done"
    /\ ~node.present
    /\ out = <<>>

\* the record type a review state is counted as
CountedAs(state) ==
    CASE state = "APPROVED" -> "review_approved"
      [] state = "CHANGES_REQUESTED" -> "review_changes_requested"
      [] state = "COMMENTED" -> "review_commented"

\* the reviews of the item that are counted: an author, and one of the three states
CountedReviews ==
    SelectSeq(node.reviews, LAMBDA r :
        r.author # NULL /\ r.state \in {"APPROVED", "CHANGES_REQUESTED", "COMMENTED"})

ReviewRecords == SelectSeq(out, LAMBDA e : e.type \in ReviewTypes)

\* C22: the review records of an item are, one for one and in order, its reviews that
\* have an author and the state APPROVED, CHANGES_REQUESTED or COMMENTED, each of the
\* type of its state and by its author; other reviews leave nothing.
C22_ReviewRecords ==
    (npc = "done" /\ node.present) =>
        /\ Len(ReviewRecords) = Len(CountedReviews)
        /\ \A k \in DOMAIN ReviewRecords :
              /\ ReviewRecords[k].type = CountedAs(CountedReviews[k].state)
              /\ ReviewRecords[k].user = CountedReviews[k].author

C22_Witness ==
    /\ npc = "done"
    /\ node.present
    /\ Len(node.reviews) = 6
    /\ Len(ReviewRecords) = 3

\* the comments of a list that have an author
Authored(comments) == Len(SelectSeq(comments, LAMBDA c : c.author # NULL))

RECURSIVE AuthoredInThreads(_)
AuthoredInThreads(threads) ==
    IF threads = <<>> THEN 0
    ELSE Authored(Head(threads)) + AuthoredInThreads(Tail(threads))

CommentRecords == SelectSeq(out, LAMBDA e : e.type = "comment")

\* C23: the number of Comment records of an item is the number of its top-level
\* comments with an author plus the number of comments with an author in its review
\* threads, and none of the records is by an absent author.
C23_CommentRecords ==
    (npc = "done" /\ node.present) =>
        /\ Len(CommentRecords) = Authored(node.comments) + AuthoredInThreads(node.reviewThreads)
        /\ \A k \in DOMAIN CommentRecords : CommentRecords[k].user \in {"alice", "bob"}

C23_Witness ==
    /\ npc = "done"
    /\ node.present
    /\ Len(node.reviewThreads) = 3
    /\ Len(CommentRecords) = 3

\* ------------------------------------------------ claims about the order of ties
\* the place of a user in the frame before sorting: groupby leaves the users ascending
UserRank(user) == CHOOSE k \in DOMAIN UserOrder : UserOrder[k] = user

\* C24: in every table shown, two rows equal in the ordering column stand in the order
\* they had before sorting.
C24_StableTies ==
    \A k \in DOMAIN Shown : IsTable(Shown[k]) =>
        \A i, j \in DOMAIN Shown[k].rows :
            (i < j /\ Shown[k].rows[i].vals[OrderCol] = Shown[k].rows[j].vals[OrderCol])
                => UserRank(Shown[k].rows[i].user) < UserRank(Shown[k].rows[j].user)

\* ------------------------------------------------ claims about the end of a report
\* C26: a turn of the while loop is followed by another turn exactly when its answer was
\* a page that reported a further page (an error payload or an exception ends the loop),
\* and every fetch_stats call in progress eventually returns or raises.
C26_Terminates ==
    /\ [][(pc = "while" /\ impl = "graphql" /\ log' # log) =>
              (pc' = "while" <=>
                  (Last(log').kind = "data" /\ Last(log').page.hasNextPage))]_vars
    /\ (impl = "graphql" /\ pc \in {"for", "while"}) ~> (pc \in {"returned", "raised"})

C26_Witness ==
    /\ impl = "graphql"
    /\ pc = "returned"
    /\ Len(log) >= 3
    /\ log[1].kind = "data"
    /\ log[1].page.hasNextPage
    /\ log[2].pos = 1
    /\ log[3].pos = 2
    /\ log[3].kind # "data"

\* C27: generate_report raises no error, every call that has ended has completed, and a
\* completed call with an output file has handed the file all it printed, once.
C27_ReportCompletes ==
    /\ rerror = NULL
    /\ ReportEnded => rpc = "done"
    /\ (rpc = "done" /\ output_file # NULL) => saved = output_buffer

\* ------------------------------------------------ claims about the skip list
IsPrefix(s, t) == Len(s) <= Len(t) /\ SubSeq(t, 1, Len(s)) = s

NoDuplicates(s) == \A i, j \in DOMAIN s : s[i] = s[j] => i = j

====
